---- MODULE Spec2Model ----
(***************************************************************************)
(* go-user-api: token lifecycle (token service, token repository over the  *)
(* Redis cache, auth use case) and the cache-aside user repository over    *)
(* the document store.  Every store call (cache Get/Set/Delete, document   *)
(* find/insert/update) is one atomic step of the request that makes it;    *)
(* requests of different handlers interleave between store calls.          *)
(***************************************************************************)
EXTENDS Integers, FiniteSets, Sequences, TLC

(* ---------------- bounds of the model ---------------- *)
\* number of handler calls started in one run
MaxCalls == 3
\* number of clock ticks in one run
MaxTime == 1
\* number of store calls that answer with an error in one run
MaxFaults == 1

\* largest token id and largest user id handed to the token signer on its own
MaxTokenId == 5
MaxUserId == 3

\* request handlers that can be in flight at the same time
Procs == {"p1", "p2"}

(* ---------------- state ---------------- *)
VARIABLES
  db,        \* document store: user id -> user document
  kv,        \* Redis: key -> [val, exp]
  now,       \* clock
  budget,    \* store calls that may still answer with an error in this run
  ncalls,    \* handler calls started so far
  nextTok,   \* next fresh token id (uuid.New)
  nextUid,   \* next fresh user id (uuid.New)
  active,    \* the request handlers that accept calls in this run
  call,      \* per handler: the call in flight, its position and its locals
  ret,       \* per handler: the last completed call with its result
  minted,    \* every TokenDetails GenerateTokens has produced
  rotated,   \* refresh token ids consumed by a RefreshToken call that returned tokens
  revoked,   \* token ids handed to Logout
  issued,    \* the tokens a Login or RefreshToken call returned, with the user they were returned for
  chain      \* per generated refresh token id: the id of the refresh token of the Login it descends from

vars == <<db, kv, now, budget, ncalls, nextTok, nextUid, active, call, ret, minted,
          rotated, revoked, issued, chain>>

(* ---------------- program constants (time unit: 15 minutes) ---------------- *)
\* ACCESS_TOKEN_EXPIRATION_MINUTES = 15
AccessDuration == 1
\* userCacheTTL = 30 * time.Minute
UserCacheTTL == 2
\* REFRESH_TOKEN_EXPIRATION_DAYS = 7
RefreshDuration == 672

accessTokenPrefix == "access_token:"
refreshTokenPrefix == "refresh_token:"
userTokensPrefix == "user_tokens:"
userCacheKeyPrefix == "user:"

AccessToken == "access"
RefreshToken == "refresh"
UserStatusActive == "active"
UserStatusInactive == "inactive"
UserStatusBlocked == "blocked"
UserRoleUser == "user"
Statuses == {UserStatusActive, UserStatusInactive, UserStatusBlocked}

(* ---------------- inputs ---------------- *)
Emails == {"admin@example.com", "e2"}
FirstNames == {"Admin", "F2"}
Usernames == {"admin", "n2"}
Passwords == {"admin123", "pw2"}

\* a Redis entry written with expiration <= 0 carries no time-to-live
NoExpiry == -1

(* ---------------- credential hasher (utils) ---------------- *)
HashPassword(password) == <<"bcrypt", password>>

CheckPasswordHash(password, hash) == hash = <<"bcrypt", password>>

(* ---------------- entities ---------------- *)
NoUser ==
  [id |-> 0, email |-> "", username |-> "", password |-> <<"bcrypt", "">>,
   first_name |-> "", role |-> "", status |-> ""]

\* entity.NewUser: role user, status active
NewUser(id, email, username, password, firstName) ==
  [id |-> id, email |-> email, username |-> username, password |-> password,
   first_name |-> firstName, role |-> UserRoleUser, status |-> UserStatusActive]

\* the admin user inserted by scripts/mongo-init.js
AdminUser ==
  [id |-> 1, email |-> "admin@example.com", username |-> "admin",
   password |-> HashPassword("admin123"), first_name |-> "Admin",
   role |-> "admin", status |-> UserStatusActive]

\* json.Marshal of entity.User: the Password field is tagged json:"-" and is left out
MarshalUser(u) ==
  [id |-> u.id, email |-> u.email, username |-> u.username,
   first_name |-> u.first_name, role |-> u.role, status |-> u.status]

\* json.Unmarshal into entity.User: Password keeps its zero value
UnmarshalUser(j) ==
  [id |-> j.id, email |-> j.email, username |-> j.username, password |-> <<"bcrypt", "">>,
   first_name |-> j.first_name, role |-> j.role, status |-> j.status]

NoDetails == [token_id |-> 0, user_id |-> 0, token_type |-> "none", expiration |-> 0]

TokenDetails(tokenID, userID, tokenType, expiration) ==
  [token_id |-> tokenID, user_id |-> userID, token_type |-> tokenType, expiration |-> expiration]

(* ---------------- token service (PASETO v2.public) ---------------- *)
PrivateKey == "key-1"
OtherKey == "key-x"

\* claims built with the token id and the user id in each other's place
TokenClaimsSwapped(details) ==
  [jti |-> details.user_id, sub |-> details.token_id, type |-> details.token_type]

\* createToken: TokenClaims{TokenID, UserID, TokenType}, marshalled as jti, sub, type
TokenClaims(details) ==
  [jti |-> details.token_id, sub |-> details.user_id, type |-> details.token_type]

\* the Ed25519 signature of a payload: a function of the signing key and of every claim
Signature(key, claims) == <<key, claims.jti, claims.sub, claims.type>>

\* createToken: v2.Sign(privateKey, claims, footer)
createToken(details) ==
  [payload |-> TokenClaims(details), sig |-> Signature(PrivateKey, TokenClaims(details))]

NoToken == [payload |-> [jti |-> 0, sub |-> 0, type |-> "none"], sig |-> <<"", 0, 0, "">>]

\* a verification that accepts any signature
VerifyOKAnySignature(token) == token.sig = token.sig

\* tokenService.ValidateToken: v2.Verify(token, publicKey, &claims, &footer)
VerifyOK(token) == token.sig = Signature(PrivateKey, token.payload)

NoClaims == [jti |-> 0, sub |-> 0, type |-> "none"]

\* tokenService.ValidateToken: the claims unmarshalled from the payload of a token whose
\* signature verifies, nil with ErrInvalidToken otherwise
TokenServiceValidateToken(token) ==
  IF VerifyOK(token)
  THEN [jti |-> token.payload.jti, sub |-> token.payload.sub, type |-> token.payload.type]
  ELSE NoClaims

\* GenerateTokens: two fresh token ids, expirations now+accessDuration and now+refreshDuration
GenerateAccess(userID, tokenID, t) == TokenDetails(tokenID, userID, AccessToken, t + AccessDuration)

GenerateRefresh(userID, tokenID, t) == TokenDetails(tokenID, userID, RefreshToken, t + RefreshDuration)

(* ---------------- cache keys ---------------- *)
\* GetToken / DeleteToken that take the refresh prefix for every kind
PrefixOfAlwaysRefresh(tokenType) == refreshTokenPrefix

\* GetToken / DeleteToken: the key prefix of the token kind
PrefixOf(tokenType) == IF tokenType = AccessToken THEN accessTokenPrefix ELSE refreshTokenPrefix

\* key := prefix + tokenID
TokenKey(prefix, tokenID) == <<prefix, 0, "", tokenID>>

\* userTokensPrefix + userID + ":" + tokenType + ":" + tokenID
UserTokenKey(userID, tokenType, tokenID) == <<userTokensPrefix, userID, tokenType, tokenID>>

\* userCacheKeyPrefix + id
UserCacheKey(id) == <<userCacheKeyPrefix, id, "", 0>>

(* ---------------- Redis cache ---------------- *)
\* RedisCache.Set: SET key value EX ttl when ttl > 0, plain SET (no expiry) otherwise
CacheSet(store, key, value, ttl, t) ==
  [k \in DOMAIN store \cup {key} |->
     IF k = key THEN [val |-> value, exp |-> IF ttl > 0 THEN t + ttl ELSE NoExpiry]
     ELSE store[k]]

\* RedisCache.Delete: DEL key
CacheDelete(store, key) == [k \in DOMAIN store \ {key} |-> store[k]]

\* RedisCache.Get: present or redis.Nil
CacheHas(store, key) == key \in DOMAIN store

\* Redis drops an entry when its time-to-live has run out
Expire(store, t) ==
  [k \in {x \in DOMAIN store : store[x].exp = NoExpiry \/ store[x].exp > t} |-> store[k]]

EmptyStore == [k \in {} |-> 0]

(* ---------------- document store (MongoDB collection users) ---------------- *)
\* an email lookup that finds nothing
getUserByEmailMongoMiss(coll, email) == NoUser

\* FindOne({"email": email}): the document or mongo.ErrNoDocuments (nil, nil)
getUserByEmailMongo(coll, email) ==
  IF \E i \in DOMAIN coll : coll[i].email = email
  THEN coll[CHOOSE i \in DOMAIN coll : coll[i].email = email]
  ELSE NoUser

\* FindOne({"username": username})
getUserByUsernameMongo(coll, username) ==
  IF \E i \in DOMAIN coll : coll[i].username = username
  THEN coll[CHOOSE i \in DOMAIN coll : coll[i].username = username]
  ELSE NoUser

\* FindOne({"_id": id})
getUserByIDMongo(coll, id) == IF id \in DOMAIN coll THEN coll[id] ELSE NoUser

\* a collection without the unique indexes
DuplicateKeyNever(coll, user) == FALSE

\* the unique indexes on email and on username created by scripts/mongo-init.js
DuplicateKey(coll, user) ==
  \E i \in DOMAIN coll : coll[i].email = user.email \/ coll[i].username = user.username

\* InsertOne(user), applied when no unique index rejects it
createUserMongo(coll, user) == [i \in DOMAIN coll \cup {user.id} |-> IF i = user.id THEN user ELSE coll[i]]

\* UpdateOne({"_id": id}, {"$set": {"status": status}}): no document matched is no error
updateStatusMongo(coll, id, status) ==
  [i \in DOMAIN coll |-> IF i = id THEN [coll[i] EXCEPT !.status = status] ELSE coll[i]]

\* UpdateOne({"_id": user.ID}, {"$set": email, username, first_name, last_name, role,
\* status, updated_at}): the password is not written; no document matched is no error
updateUserMongo(coll, user) ==
  [i \in DOMAIN coll |->
     IF i = user.id
     THEN [coll[i] EXCEPT !.email = user.email, !.username = user.username,
                          !.first_name = user.first_name, !.role = user.role,
                          !.status = user.status]
     ELSE coll[i]]

\* UpdateOne({"_id": id}, {"$set": {"password": hashedPassword}})
changePasswordMongo(coll, id, hashedPassword) ==
  [i \in DOMAIN coll |-> IF i = id THEN [coll[i] EXCEPT !.password = hashedPassword] ELSE coll[i]]

\* DeleteOne({"_id": id})
deleteUserMongo(coll, id) == [i \in DOMAIN coll \ {id} |-> coll[i]]

(* ---------------- token repository ---------------- *)
\* a storeToken that writes the record without a time-to-live
StoreTokenPrimaryNoTTL(store, details, prefix, t) ==
  CacheSet(store, TokenKey(prefix, details.token_id), details, 0, t)

\* storeToken, first Set: prefix+tokenID -> details, expiring after time.Until(details.Expiration)
StoreTokenPrimary(store, details, prefix, t) ==
  CacheSet(store, TokenKey(prefix, details.token_id), details, details.expiration - t, t)

\* storeToken, second Set: the per-user index entry, with the same duration
StoreTokenIndex(store, details, ttl, t) ==
  CacheSet(store, UserTokenKey(details.user_id, details.token_type, details.token_id), "1", ttl, t)

\* a GetToken that looks the token id up under both prefixes
GetTokenEitherKind(store, tokenID, tokenType) ==
  IF CacheHas(store, TokenKey(accessTokenPrefix, tokenID))
  THEN store[TokenKey(accessTokenPrefix, tokenID)].val
  ELSE IF CacheHas(store, TokenKey(refreshTokenPrefix, tokenID))
  THEN store[TokenKey(refreshTokenPrefix, tokenID)].val
  ELSE NoDetails

\* a GetToken that returns details for every token id
GetTokenAlwaysFound(store, tokenID, tokenType) == TokenDetails(tokenID, 1, tokenType, 1)

\* a GetToken that finds a record only while its owner is a stored user with status active
GetTokenOfActiveUser(store, tokenID, tokenType) ==
  LET key == TokenKey(PrefixOf(tokenType), tokenID)
  IN IF /\ CacheHas(store, key)
        /\ store[key].val.user_id \in DOMAIN db
        /\ db[store[key].val.user_id].status = "active"
     THEN store[key].val
     ELSE NoDetails

\* GetToken: the stored details, or nil when the key is absent
GetToken(store, tokenID, tokenType) ==
  IF CacheHas(store, TokenKey(PrefixOf(tokenType), tokenID))
  THEN store[TokenKey(PrefixOf(tokenType), tokenID)].val
  ELSE NoDetails

\* DeleteToken that also removes the refresh record generated right after the token
DeleteTokenPrimaryWithPair(store, tokenID, tokenType) ==
  CacheDelete(CacheDelete(store, TokenKey(PrefixOf(tokenType), tokenID)),
              TokenKey(refreshTokenPrefix, tokenID + 1))

\* DeleteToken that deletes under the other key space and leaves the record in place
DeleteTokenPrimaryOtherKind(store, tokenID, tokenType) ==
  CacheDelete(store, TokenKey(PrefixOf(IF tokenType = AccessToken THEN RefreshToken ELSE AccessToken), tokenID))

\* DeleteToken, first Delete: the primary key
DeleteTokenPrimary(store, tokenID, tokenType) ==
  CacheDelete(store, TokenKey(PrefixOf(tokenType), tokenID))

\* DeleteToken, second Delete: the index entry of the owner read from the stored details
DeleteTokenIndex(store, userID, tokenType, tokenID) ==
  CacheDelete(store, UserTokenKey(userID, tokenType, tokenID))

\* DeleteUserTokens: builds the key pattern, logs, and returns nil without a store call
DeleteUserTokens(store, userID) == store

(* ---------------- user repository ---------------- *)
\* an email lookup served from a cached user entry when one has the email
GetByEmailCached(coll, email) ==
  IF \E k \in DOMAIN kv : k[1] = userCacheKeyPrefix /\ kv[k].val.email = email
  THEN UnmarshalUser(kv[CHOOSE k \in DOMAIN kv : k[1] = userCacheKeyPrefix /\ kv[k].val.email = email].val)
  ELSE getUserByEmailMongo(coll, email)

\* userRepository.GetByEmail: getUserByEmailMongo, no cache call
GetByEmail(coll, email) == getUserByEmailMongo(coll, email)

\* userRepository.GetByUsername: getUserByUsernameMongo, no cache call
GetByUsername(coll, username) == getUserByUsernameMongo(coll, username)

\* a cache population without a time-to-live
CacheUserForever(store, user, t) == CacheSet(store, UserCacheKey(user.id), MarshalUser(user), 0, t)

\* GetByID, cache population: Set(user:id, json.Marshal(user), userCacheTTL)
CacheUser(store, user, t) == CacheSet(store, UserCacheKey(user.id), MarshalUser(user), UserCacheTTL, t)

\* a status change that leaves the cache entry in place
InvalidateUserSkipped(store, id) == store

\* UpdateStatus / ChangePassword / Delete, cache invalidation: Delete(user:id)
InvalidateUser(store, id) == CacheDelete(store, UserCacheKey(id))

ErrInvalidCredentials == "invalid credentials"
ErrInvalidRefreshToken == "invalid refresh token"
ErrInvalidToken == "invalid token"
ErrExpiredToken == "token is expired"
ErrEmailAlreadyExists == "email already exists"
ErrUsernameAlreadyExists == "username already exists"
ErrUserNotFound == "user not found"
ErrNotActive == "user account is not active"
\* an error of a store call, wrapped with fmt.Errorf
InfraError == "infrastructure error"
OK == "ok"

Idle ==
  [op |-> "idle", pc |-> "", seq |-> 0, res |-> "", flt |-> FALSE,
   email |-> "", password |-> "", username |-> "", id |-> 0, status |-> "",
   firstName |-> "", newPassword |-> "",
   token |-> NoToken, tokenID |-> 0, tokenType |-> "none", owner |-> 0,
   user |-> NoUser, acc |-> NoDetails, ref |-> NoDetails, ttl |-> 0,
   hit |-> FALSE, after |-> FALSE, cached |-> "", taken |-> "", wrote |-> {}, removed |-> {}]

Init ==
  /\ db = [i \in {1} |-> AdminUser]
  /\ kv = EmptyStore
  /\ now = 0
  /\ budget = MaxFaults
  /\ ncalls = 0
  /\ nextTok = 1
  /\ nextUid = 2
  /\ active = {"p1"}
  /\ call = [p \in Procs |-> Idle]
  /\ ret = [p \in Procs |-> Idle]
  /\ minted = {}
  /\ rotated = {}
  /\ revoked = {}
  /\ issued = {}
  /\ chain = {}

\* a store call answers, or fails with an error while the fault budget lasts
Outcomes == IF budget > 0 THEN {TRUE, FALSE} ELSE {TRUE}

Fault(ok) == budget' = IF ok THEN budget ELSE budget - 1

CanStart(p) == p \in active /\ call[p].op = "idle" /\ ncalls < MaxCalls

Begin(name) == [Idle EXCEPT !.op = name, !.seq = ncalls + 1]

Finish(p, c, r) ==
  /\ call' = [call EXCEPT ![p] = Idle]
  /\ ret' = [ret EXCEPT ![p] = [c EXCEPT !.pc = "done", !.res = r]]
  /\ rotated' = IF c.op = "RefreshToken" /\ r = OK
                THEN rotated \cup {<<c.tokenID, c.flt>>} ELSE rotated
  /\ issued' = IF c.op \in {"Login", "RefreshToken"} /\ r = OK
               THEN issued \cup {[op |-> c.op, token_id |-> d.token_id,
                                    user_id |-> IF c.op = "Login" THEN c.user.id ELSE c.token.payload.sub]
                                   : d \in {c.acc, c.ref}}
               ELSE issued

Goto(p, c, pc) ==
  /\ call' = [call EXCEPT ![p] = [c EXCEPT !.pc = pc]]
  /\ UNCHANGED <<ret, rotated, issued>>

(* ---------------- auth use case ---------------- *)
\* RefreshToken that revokes the consumed token before it stores the new pair
StepsRevokeFirst(op) ==
  CASE op = "Login" -> <<"accP", "accI", "refP", "refI">>
    [] op = "RefreshToken" -> <<"delG", "delP", "delI", "accP", "accI", "refP", "refI">>
    [] op = "Logout" -> <<"delP", "delI">>
    [] op = "LogoutHandler" -> <<"delG", "delP", "delI">>
    [] OTHER -> <<>>

\* the store calls of a handler after its first one, in program order:
\* storeToken = Set primary ("P") then Set index ("I"), for the access and then the
\* refresh details; DeleteToken = GetToken ("delG"), Delete primary, Delete index
Steps(op) ==
  CASE op = "Login" -> <<"accP", "accI", "refP", "refI">>
    [] op = "RefreshToken" -> <<"accP", "accI", "refP", "refI", "delG", "delP", "delI">>
    [] op = "Logout" -> <<"delP", "delI">>
    [] op = "LogoutHandler" -> <<"delG", "delP", "delI">>
    [] OTHER -> <<>>

Succ(op, pc) ==
  LET s == Steps(op)
      i == CHOOSE j \in 1..Len(s) : s[j] = pc
  IN IF i < Len(s) THEN s[i + 1] ELSE "end"

First(op) == IF Steps(op) = <<>> THEN "end" ELSE Steps(op)[1]

\* continue the call at position pc, or return nil / the tokens at the end
Proceed(p, c, pc) == IF pc = "end" THEN Finish(p, c, OK) ELSE Goto(p, c, pc)

\* Login: user == nil, or the password does not match the stored hash
LoginRejects(user, password) ==
  user = NoUser \/ ~CheckPasswordHash(password, user.password)

\* a use case that reports a failed lookup as an unknown token
LookupErrorAsInvalid(op) == IF op = "ValidateToken" THEN ErrInvalidToken ELSE ErrInvalidRefreshToken

\* RefreshToken / ValidateToken when tokenRepo.GetToken returns an error: the error is
\* logged and returned wrapped with fmt.Errorf
LookupError(op) == InfraError

\* the details of the tokens that Login and RefreshToken calls have returned
IssuedDetails == {d \in minted : \E i \in issued : i.token_id = d.token_id}

\* the token strings a caller can present: the ones returned to callers, and
\* forgeries of them signed with another key
TokenInputs ==
  {createToken(d) : d \in IssuedDetails}
  \cup {[createToken(d) EXCEPT !.sig = Signature(OtherKey, TokenClaims(d))] : d \in IssuedDetails}

\* the Login a refresh token id descends from (0 for an id that is no refresh token)
ChainOf(tokenID) ==
  IF \E y \in chain : y[1] = tokenID
  THEN (CHOOSE y \in chain : y[1] = tokenID)[2]
  ELSE 0

\* Login: GetByEmail, password check, GenerateTokens
Login(p) ==
  /\ CanStart(p)
  /\ \E email \in Emails, password \in Passwords, ok \in Outcomes :
       LET c == [Begin("Login") EXCEPT !.email = email, !.password = password, !.flt = ~ok]
           user == GetByEmail(db, email)
           acc == GenerateAccess(user.id, nextTok, now)
           ref == GenerateRefresh(user.id, nextTok + 1, now)
       IN /\ Fault(ok)
          /\ IF ~ok
             THEN Finish(p, c, InfraError) /\ UNCHANGED <<nextTok, minted, chain>>
             ELSE IF LoginRejects(user, password)
             THEN Finish(p, [c EXCEPT !.user = user], ErrInvalidCredentials)
                  /\ UNCHANGED <<nextTok, minted, chain>>
             ELSE /\ Proceed(p, [c EXCEPT !.user = user, !.acc = acc, !.ref = ref], First("Login"))
                  /\ nextTok' = nextTok + 2
                  /\ minted' = minted \cup {acc, ref}
                  /\ chain' = chain \cup {<<ref.token_id, ref.token_id>>}
  /\ ncalls' = ncalls + 1
  /\ UNCHANGED <<db, kv, now, nextUid, active, revoked>>

\* RefreshToken: verify, kind check, GetToken(refresh), GenerateTokens
RefreshTokenCall(p) ==
  /\ CanStart(p)
  /\ \E token \in TokenInputs, ok \in Outcomes :
       LET claims == token.payload
           c == [Begin("RefreshToken") EXCEPT !.token = token, !.tokenID = claims.jti,
                   !.tokenType = RefreshToken, !.after = <<claims.jti, FALSE>> \in rotated]
           found == GetToken(kv, claims.jti, RefreshToken)
           acc == GenerateAccess(claims.sub, nextTok, now)
           ref == GenerateRefresh(claims.sub, nextTok + 1, now)
       IN IF ~VerifyOK(token) \/ claims.type # RefreshToken
          THEN /\ ok
               /\ Finish(p, c, ErrInvalidRefreshToken)
               /\ UNCHANGED <<budget, nextTok, minted, chain>>
          ELSE /\ Fault(ok)
               /\ IF ~ok
                  THEN Finish(p, [c EXCEPT !.flt = TRUE], LookupError(c.op))
                       /\ UNCHANGED <<nextTok, minted, chain>>
                  ELSE IF found = NoDetails
                  THEN Finish(p, c, ErrInvalidRefreshToken) /\ UNCHANGED <<nextTok, minted, chain>>
                  ELSE /\ Proceed(p, [c EXCEPT !.hit = TRUE, !.acc = acc, !.ref = ref],
                                  First("RefreshToken"))
                       /\ nextTok' = nextTok + 2
                       /\ minted' = minted \cup {acc, ref}
                       /\ chain' = chain \cup {<<ref.token_id, ChainOf(claims.jti)>>}
  /\ ncalls' = ncalls + 1
  /\ UNCHANGED <<db, kv, now, nextUid, active, revoked>>

\* storeToken: marshal, time.Until(details.Expiration), Set(prefix+tokenID)
storeToken(p) ==
  /\ call[p].pc \in {"accP", "refP"}
  /\ \E ok \in Outcomes :
       LET c == call[p]
           details == IF c.pc = "accP" THEN c.acc ELSE c.ref
           prefix == IF c.pc = "accP" THEN accessTokenPrefix ELSE refreshTokenPrefix
       IN /\ Fault(ok)
          /\ IF ok
             THEN /\ kv' = StoreTokenPrimary(kv, details, prefix, now)
                  /\ Proceed(p, [c EXCEPT !.ttl = details.expiration - now,
                                          !.wrote = @ \cup {TokenKey(prefix, details.token_id)}],
                             Succ(c.op, c.pc))
             ELSE /\ UNCHANGED kv
                  /\ Finish(p, [c EXCEPT !.flt = TRUE], InfraError)
  /\ UNCHANGED <<db, now, ncalls, nextTok, nextUid, active, minted, chain, revoked>>

\* a storeToken that returns the error of the index Set
AfterIndexSetFatal(p, c, ok) ==
  IF ok THEN Proceed(p, c, Succ(c.op, c.pc))
  ELSE Finish(p, [c EXCEPT !.flt = TRUE], InfraError)

\* storeToken after the index Set: an error is logged as a warning, storeToken returns nil
AfterIndexSet(p, c, ok) == Proceed(p, [c EXCEPT !.flt = @ \/ ~ok], Succ(c.op, c.pc))

\* storeToken: Set of the user_tokens index entry
storeTokenIndex(p) ==
  /\ call[p].pc \in {"accI", "refI"}
  /\ \E ok \in Outcomes :
       LET c == call[p]
           details == IF c.pc = "accI" THEN c.acc ELSE c.ref
       IN /\ Fault(ok)
          /\ kv' = IF ok THEN StoreTokenIndex(kv, details, c.ttl, now) ELSE kv
          /\ AfterIndexSet(p, c, ok)
  /\ UNCHANGED <<db, now, ncalls, nextTok, nextUid, active, minted, chain, revoked>>

\* DeleteToken: GetToken first; an error or a missing record returns nil at once
DeleteTokenLookup(p, c, ok) ==
  LET token == GetToken(kv, c.tokenID, c.tokenType)
  IN IF ~ok \/ token = NoDetails
     THEN Proceed(p, [c EXCEPT !.flt = @ \/ ~ok], Succ(c.op, "delI"))
     ELSE Proceed(p, [c EXCEPT !.owner = token.user_id], Succ(c.op, "delG"))

\* the token ids a caller can hand to Logout: the id of any returned token, or one
\* never generated
LogoutIds == {d.token_id : d \in IssuedDetails} \cup {0}

\* Logout: DeleteToken(tokenID, AccessToken), up to its GetToken
Logout(p) ==
  /\ CanStart(p)
  /\ \E tokenID \in LogoutIds, ok \in Outcomes :
       /\ Fault(ok)
       /\ LET c == [Begin("Logout") EXCEPT !.tokenID = tokenID, !.tokenType = AccessToken]
              token == GetToken(kv, tokenID, AccessToken)
          IN IF ~ok \/ token = NoDetails
             THEN Finish(p, [c EXCEPT !.flt = ~ok], OK)
             ELSE Proceed(p, [c EXCEPT !.owner = token.user_id], First("Logout"))
       /\ revoked' = revoked \cup {tokenID}
  /\ ncalls' = ncalls + 1
  /\ UNCHANGED <<db, kv, now, nextTok, nextUid, active, minted, chain>>

\* DeleteToken called by RefreshToken for the consumed refresh token: its GetToken
DeleteTokenGet(p) ==
  /\ call[p].pc = "delG"
  /\ \E ok \in Outcomes : Fault(ok) /\ DeleteTokenLookup(p, call[p], ok)
  /\ UNCHANGED <<db, kv, now, ncalls, nextTok, nextUid, active, minted, chain, revoked>>

\* a RefreshToken that returns the error of DeleteToken as Logout does
DeleteErrorFailsAlways(op) == TRUE

\* the callers of DeleteToken: Logout (called directly or by the HTTP logout handler)
\* returns its error wrapped, RefreshToken only logs it
DeleteErrorFails(op) == op \in {"Logout", "LogoutHandler"}

\* DeleteToken: Delete of the primary key; its error is the error of DeleteToken
DeleteToken(p) ==
  /\ call[p].pc = "delP"
  /\ \E ok \in Outcomes :
       LET c == call[p]
       IN /\ Fault(ok)
          /\ IF ok
             THEN /\ kv' = DeleteTokenPrimary(kv, c.tokenID, c.tokenType)
                  /\ Proceed(p, [c EXCEPT !.removed = @ \cup {TokenKey(PrefixOf(c.tokenType), c.tokenID)}],
                             Succ(c.op, "delP"))
             ELSE /\ UNCHANGED kv
                  /\ IF DeleteErrorFails(c.op)
                     THEN Finish(p, [c EXCEPT !.flt = TRUE], InfraError)
                     ELSE Proceed(p, [c EXCEPT !.flt = TRUE], Succ(c.op, "delI"))
  /\ UNCHANGED <<db, now, ncalls, nextTok, nextUid, active, minted, chain, revoked>>

\* DeleteToken: Delete of the user_tokens index entry; an error is logged as a warning
DeleteTokenFromIndex(p) ==
  /\ call[p].pc = "delI"
  /\ \E ok \in Outcomes :
       LET c == call[p]
       IN /\ Fault(ok)
          /\ kv' = IF ok THEN DeleteTokenIndex(kv, c.owner, c.tokenType, c.tokenID) ELSE kv
          /\ Proceed(p, [c EXCEPT !.flt = @ \/ ~ok], Succ(c.op, "delI"))
  /\ UNCHANGED <<db, now, ncalls, nextTok, nextUid, active, minted, chain, revoked>>

\* LogoutAll: DeleteUserTokens(userID)
LogoutAll(p) ==
  /\ CanStart(p)
  /\ \E userID \in 1..nextUid :
       /\ kv' = DeleteUserTokens(kv, userID)
       /\ Finish(p, [Begin("LogoutAll") EXCEPT !.id = userID], OK)
  /\ ncalls' = ncalls + 1
  /\ UNCHANGED <<db, now, budget, nextTok, nextUid, active, minted, chain, revoked>>

\* the last call of this handler was LogoutAll of the user this token was returned for,
\* and it returned nil
AfterLogoutAll(p, token) ==
  /\ ret[p].op = "LogoutAll" /\ ret[p].res = OK
  /\ \E i \in issued : i.token_id = token.payload.jti /\ i.user_id = ret[p].id
  /\ \E d \in minted : token = createToken(d) /\ d.token_type = AccessToken

\* ValidateToken: verify, kind check, GetToken(access)
ValidateToken(p) ==
  /\ CanStart(p)
  /\ \E token \in TokenInputs, ok \in Outcomes :
       LET claims == token.payload
           c == [Begin("ValidateToken") EXCEPT !.token = token, !.tokenID = claims.jti,
                   !.tokenType = AccessToken, !.after = AfterLogoutAll(p, token)]
           found == GetToken(kv, claims.jti, AccessToken)
       IN IF ~VerifyOK(token) \/ claims.type # AccessToken
          THEN ok /\ Finish(p, c, ErrInvalidToken) /\ UNCHANGED budget
          ELSE /\ Fault(ok)
               /\ IF ~ok
                  THEN Finish(p, [c EXCEPT !.flt = TRUE], LookupError(c.op))
                  ELSE IF found = NoDetails
                  THEN Finish(p, c, ErrInvalidToken)
                  ELSE Finish(p, [c EXCEPT !.hit = TRUE, !.id = claims.sub], OK)
  /\ ncalls' = ncalls + 1
  /\ UNCHANGED <<db, kv, now, nextTok, nextUid, active, minted, chain, revoked>>

\* POST /auth/logout: AuthMiddleware runs ValidateToken on the bearer token (401 on
\* ErrInvalidToken, 500 on another error), stores user_id and token_id = uuid.New() in
\* the request context, and AuthHandler.Logout hands that token_id to authUseCase.Logout
LogoutHandler(p) ==
  /\ CanStart(p)
  /\ \E token \in TokenInputs, ok \in Outcomes :
       LET claims == token.payload
           c == [Begin("LogoutHandler") EXCEPT !.token = token, !.tokenType = AccessToken]
           found == GetToken(kv, claims.jti, AccessToken)
       IN IF ~VerifyOK(token) \/ claims.type # AccessToken
          THEN ok /\ Finish(p, c, ErrInvalidToken) /\ UNCHANGED <<budget, nextTok, revoked>>
          ELSE /\ Fault(ok)
               /\ IF ~ok
                  THEN Finish(p, [c EXCEPT !.flt = TRUE], LookupError("ValidateToken"))
                       /\ UNCHANGED <<nextTok, revoked>>
                  ELSE IF found = NoDetails
                  THEN Finish(p, c, ErrInvalidToken) /\ UNCHANGED <<nextTok, revoked>>
                  ELSE /\ Proceed(p, [c EXCEPT !.hit = TRUE, !.id = claims.sub, !.tokenID = nextTok],
                                  First("LogoutHandler"))
                       /\ nextTok' = nextTok + 1
                       /\ revoked' = revoked \cup {nextTok}
  /\ ncalls' = ncalls + 1
  /\ UNCHANGED <<db, kv, now, nextUid, active, minted, chain>>

(* ---------------- user use case over the user repository ---------------- *)
\* after userRepo.GetByID returned: user == nil is ErrUserNotFound; GetByID returns the
\* user; ChangePassword checks the old password against the hash of the user it got;
\* UpdateStatus, Update, ChangePassword and Delete go on to their repository call
\* the document-store write of the repository call each use case makes next
Mutation(op) ==
  CASE op = "UpdateStatus" -> "uD"
    [] op = "Update" -> "wD"
    [] op = "ChangePassword" -> "cD"
    [] op = "Delete" -> "dD"
    [] OTHER -> "end"

Continue(p, c) ==
  IF c.user = NoUser THEN Finish(p, c, ErrUserNotFound)
  ELSE IF c.op = "GetByID" THEN Finish(p, c, OK)
  ELSE IF c.op = "ChangePassword" /\ ~CheckPasswordHash(c.password, c.user.password)
  THEN Finish(p, c, ErrInvalidCredentials)
  ELSE Goto(p, c, Mutation(c.op))

\* a GetByID that reads the document store whatever the cache holds
GetByIDFromCacheSkipped(p, c, ok) == Goto(p, [c EXCEPT !.flt = ~ok], "gD")

\* userRepository.GetByID, cache lookup: a hit that unmarshals is returned at once
GetByIDFromCache(p, c, ok) ==
  IF ok /\ CacheHas(kv, UserCacheKey(c.id))
  THEN Continue(p, [c EXCEPT !.user = UnmarshalUser(kv[UserCacheKey(c.id)].val), !.hit = TRUE])
  ELSE Goto(p, [c EXCEPT !.flt = ~ok], "gD")

\* the last call of this handler was UpdateStatus(id, "blocked"), it returned nil with
\* every store call answered, and the cache held the user as active when it wrote
AfterBlocked(p, id) ==
  /\ ret[p].op = "UpdateStatus" /\ ret[p].res = OK /\ ~ret[p].flt
  /\ ret[p].id = id /\ ret[p].status = UserStatusBlocked
  /\ ret[p].cached = UserStatusActive

\* userUseCase.GetByID
GetByID(p) ==
  /\ CanStart(p)
  /\ \E id \in 1..nextUid, ok \in Outcomes :
       /\ Fault(ok)
       /\ GetByIDFromCache(p, [Begin("GetByID") EXCEPT !.id = id, !.after = AfterBlocked(p, id)], ok)
  /\ ncalls' = ncalls + 1
  /\ UNCHANGED <<db, kv, now, nextTok, nextUid, active, minted, chain, revoked>>

\* userUseCase.UpdateStatus: GetByID first
UpdateStatus(p) ==
  /\ CanStart(p)
  /\ \E id \in 1..nextUid, status \in Statuses, ok \in Outcomes :
       /\ Fault(ok)
       /\ GetByIDFromCache(p, [Begin("UpdateStatus") EXCEPT !.id = id, !.status = status], ok)
  /\ ncalls' = ncalls + 1
  /\ UNCHANGED <<db, kv, now, nextTok, nextUid, active, minted, chain, revoked>>

\* userRepository.GetByID, getUserByIDMongo: an error is returned, a missing user is nil
GetByIDFromStore(p) ==
  /\ call[p].pc = "gD"
  /\ \E ok \in Outcomes :
       LET c == call[p]
           user == getUserByIDMongo(db, c.id)
       IN /\ Fault(ok)
          /\ IF ~ok THEN Finish(p, [c EXCEPT !.flt = TRUE], InfraError)
             ELSE IF user = NoUser THEN Continue(p, c)
             ELSE Goto(p, [c EXCEPT !.user = user], "gS")
  /\ UNCHANGED <<db, kv, now, ncalls, nextTok, nextUid, active, minted, chain, revoked>>

\* userRepository.GetByID, cache.Set of the user read; an error is logged as a warning
GetByIDCacheSet(p) ==
  /\ call[p].pc = "gS"
  /\ \E ok \in Outcomes :
       LET c == call[p]
       IN /\ Fault(ok)
          /\ kv' = IF ok THEN CacheUser(kv, c.user, now) ELSE kv
          /\ Continue(p, [c EXCEPT !.flt = @ \/ ~ok, !.wrote = @ \cup (IF ok THEN {UserCacheKey(c.id)} ELSE {})])
  /\ UNCHANGED <<db, now, ncalls, nextTok, nextUid, active, minted, chain, revoked>>

\* a repository write that goes on to the cache although the document store failed
AfterStoreWriteIgnoresError(p, c, ok, pc) == Goto(p, [c EXCEPT !.flt = @ \/ ~ok], pc)

\* userRepository.Update / ChangePassword / UpdateStatus / Delete after the document-store
\* write: its error is returned at once, otherwise the cache call follows
AfterStoreWrite(p, c, ok, pc) ==
  IF ok THEN Goto(p, c, pc) ELSE Finish(p, [c EXCEPT !.flt = TRUE], InfraError)

\* a repository write that returns the error of its cache call
AfterCacheWriteFatal(p, c, ok) ==
  IF ok THEN Finish(p, c, OK) ELSE Finish(p, [c EXCEPT !.flt = TRUE], InfraError)

\* userRepository.Update / ChangePassword / UpdateStatus / Delete after the cache call:
\* an error is logged as a warning and nil is returned
AfterCacheWrite(p, c, ok) == Finish(p, [c EXCEPT !.flt = @ \/ ~ok], OK)

\* userRepository.UpdateStatus, updateStatusMongo: an error is returned
UpdateStatusStore(p) ==
  /\ call[p].pc = "uD"
  /\ \E ok \in Outcomes :
       LET c == call[p]
           key == UserCacheKey(c.id)
       IN /\ Fault(ok)
          /\ db' = IF ok THEN updateStatusMongo(db, c.id, c.status) ELSE db
          /\ AfterStoreWrite(p, [c EXCEPT !.cached = IF CacheHas(kv, key) THEN kv[key].val.status ELSE ""],
                             ok, "uC")
  /\ UNCHANGED <<kv, now, ncalls, nextTok, nextUid, active, minted, chain, revoked>>

\* userRepository.UpdateStatus, cache.Delete; an error is logged as a warning
UpdateStatusInvalidate(p) ==
  /\ call[p].pc = "uC"
  /\ \E ok \in Outcomes :
       LET c == call[p]
       IN /\ Fault(ok)
          /\ kv' = IF ok THEN InvalidateUser(kv, c.id) ELSE kv
          /\ AfterCacheWrite(p, c, ok)
  /\ UNCHANGED <<db, now, ncalls, nextTok, nextUid, active, minted, chain, revoked>>

\* userUseCase.Update: GetByID first
Update(p) ==
  /\ CanStart(p)
  /\ \E id \in 1..nextUid, firstName \in FirstNames, ok \in Outcomes :
       /\ Fault(ok)
       /\ GetByIDFromCache(p, [Begin("Update") EXCEPT !.id = id, !.firstName = firstName], ok)
  /\ ncalls' = ncalls + 1
  /\ UNCHANGED <<db, kv, now, nextTok, nextUid, active, minted, chain, revoked>>

\* userUseCase.Update sets the names on the user GetByID returned; userRepository.Update,
\* updateUserMongo: an error is returned
UpdateStore(p) ==
  /\ call[p].pc = "wD"
  /\ \E ok \in Outcomes :
       LET c == call[p]
           user == [c.user EXCEPT !.first_name = c.firstName]
       IN /\ Fault(ok)
          /\ db' = IF ok THEN updateUserMongo(db, user) ELSE db
          /\ AfterStoreWrite(p, [c EXCEPT !.user = user], ok, "wC")
  /\ UNCHANGED <<kv, now, ncalls, nextTok, nextUid, active, minted, chain, revoked>>

\* userRepository.Update, cache.Set(user:id, json.Marshal(user), userCacheTTL) of the
\* user object the caller passed in; an error is logged as a warning
UpdateCacheSet(p) ==
  /\ call[p].pc = "wC"
  /\ \E ok \in Outcomes :
       LET c == call[p]
       IN /\ Fault(ok)
          /\ kv' = IF ok THEN CacheUser(kv, c.user, now) ELSE kv
          /\ AfterCacheWrite(p, [c EXCEPT !.wrote = @ \cup (IF ok THEN {UserCacheKey(c.id)} ELSE {})], ok)
  /\ UNCHANGED <<db, now, ncalls, nextTok, nextUid, active, minted, chain, revoked>>

\* userUseCase.ChangePassword: GetByID first
ChangePassword(p) ==
  /\ CanStart(p)
  /\ \E id \in 1..nextUid, oldPassword \in Passwords, newPassword \in Passwords, ok \in Outcomes :
       /\ Fault(ok)
       /\ GetByIDFromCache(p, [Begin("ChangePassword") EXCEPT
                                 !.id = id, !.password = oldPassword, !.newPassword = newPassword,
                                 !.after = /\ id \in DOMAIN db
                                           /\ CheckPasswordHash(oldPassword, db[id].password)], ok)
  /\ ncalls' = ncalls + 1
  /\ UNCHANGED <<db, kv, now, nextTok, nextUid, active, minted, chain, revoked>>

\* userUseCase.ChangePassword, HashPassword(newPassword); userRepository.ChangePassword,
\* changePasswordMongo: an error is returned
ChangePasswordStore(p) ==
  /\ call[p].pc = "cD"
  /\ \E ok \in Outcomes :
       LET c == call[p]
       IN /\ Fault(ok)
          /\ db' = IF ok THEN changePasswordMongo(db, c.id, HashPassword(c.newPassword)) ELSE db
          /\ AfterStoreWrite(p, c, ok, "cC")
  /\ UNCHANGED <<kv, now, ncalls, nextTok, nextUid, active, minted, chain, revoked>>

\* userRepository.ChangePassword, cache.Delete; an error is logged as a warning
ChangePasswordInvalidate(p) ==
  /\ call[p].pc = "cC"
  /\ \E ok \in Outcomes :
       LET c == call[p]
       IN /\ Fault(ok)
          /\ kv' = IF ok THEN InvalidateUser(kv, c.id) ELSE kv
          /\ AfterCacheWrite(p, [c EXCEPT !.removed = @ \cup (IF ok THEN {UserCacheKey(c.id)} ELSE {})], ok)
  /\ UNCHANGED <<db, now, ncalls, nextTok, nextUid, active, minted, chain, revoked>>

\* userUseCase.Delete: GetByID first
Delete(p) ==
  /\ CanStart(p)
  /\ \E id \in 1..nextUid, ok \in Outcomes :
       /\ Fault(ok)
       /\ GetByIDFromCache(p, [Begin("Delete") EXCEPT !.id = id], ok)
  /\ ncalls' = ncalls + 1
  /\ UNCHANGED <<db, kv, now, nextTok, nextUid, active, minted, chain, revoked>>

\* userRepository.Delete, deleteUserMongo: an error is returned
DeleteStore(p) ==
  /\ call[p].pc = "dD"
  /\ \E ok \in Outcomes :
       LET c == call[p]
       IN /\ Fault(ok)
          /\ db' = IF ok THEN deleteUserMongo(db, c.id) ELSE db
          /\ AfterStoreWrite(p, c, ok, "dC")
  /\ UNCHANGED <<kv, now, ncalls, nextTok, nextUid, active, minted, chain, revoked>>

\* userRepository.Delete, cache.Delete; an error is logged as a warning
DeleteInvalidate(p) ==
  /\ call[p].pc = "dC"
  /\ \E ok \in Outcomes :
       LET c == call[p]
       IN /\ Fault(ok)
          /\ kv' = IF ok THEN InvalidateUser(kv, c.id) ELSE kv
          /\ AfterCacheWrite(p, [c EXCEPT !.removed = @ \cup (IF ok THEN {UserCacheKey(c.id)} ELSE {})], ok)
  /\ UNCHANGED <<db, now, ncalls, nextTok, nextUid, active, minted, chain, revoked>>

\* userUseCase.Authenticate: GetByEmail, status check, password check
Authenticate(p) ==
  /\ CanStart(p)
  /\ \E email \in Emails, password \in Passwords, ok \in Outcomes :
       LET c == [Begin("Authenticate") EXCEPT !.email = email, !.password = password, !.flt = ~ok]
           user == GetByEmail(db, email)
       IN /\ Fault(ok)
          /\ IF ~ok THEN Finish(p, c, InfraError)
             ELSE IF user = NoUser THEN Finish(p, c, ErrInvalidCredentials)
             ELSE IF user.status # UserStatusActive THEN Finish(p, [c EXCEPT !.user = user], ErrNotActive)
             ELSE IF ~CheckPasswordHash(password, user.password)
             THEN Finish(p, [c EXCEPT !.user = user], ErrInvalidCredentials)
             ELSE Finish(p, [c EXCEPT !.user = user, !.id = user.id], OK)
  /\ ncalls' = ncalls + 1
  /\ UNCHANGED <<db, kv, now, nextTok, nextUid, active, minted, chain, revoked>>

\* userUseCase.Register, GetByEmail: only err == nil && existingUser != nil stops it
Register(p) ==
  /\ CanStart(p)
  /\ \E email \in Emails, username \in Usernames, password \in Passwords, ok \in Outcomes :
       LET c == [Begin("Register") EXCEPT !.email = email, !.username = username,
                   !.password = password, !.flt = ~ok,
                   !.taken = IF \E i \in DOMAIN db : db[i].email = email THEN "email"
                              ELSE IF \E i \in DOMAIN db : db[i].username = username THEN "username"
                              ELSE ""]
       IN /\ Fault(ok)
          /\ IF ok /\ GetByEmail(db, email) # NoUser
             THEN Finish(p, c, ErrEmailAlreadyExists)
             ELSE Goto(p, c, "rU")
  /\ ncalls' = ncalls + 1
  /\ UNCHANGED <<db, kv, now, nextTok, nextUid, active, minted, chain, revoked>>

\* userUseCase.Register, GetByUsername
RegisterGetByUsername(p) ==
  /\ call[p].pc = "rU"
  /\ \E ok \in Outcomes :
       LET c == call[p]
       IN /\ Fault(ok)
          /\ IF ok /\ GetByUsername(db, c.username) # NoUser
             THEN Finish(p, c, ErrUsernameAlreadyExists)
             ELSE Goto(p, [c EXCEPT !.flt = @ \/ ~ok], "rC")
  /\ UNCHANGED <<db, kv, now, ncalls, nextTok, nextUid, active, minted, chain, revoked>>

\* userUseCase.Register, HashPassword, NewUser and userRepo.Create (InsertOne)
RegisterCreate(p) ==
  /\ call[p].pc = "rC"
  /\ \E ok \in Outcomes :
       LET c == call[p]
           user == NewUser(nextUid, c.email, c.username, HashPassword(c.password), "F")
       IN /\ Fault(ok)
          /\ IF ok /\ ~DuplicateKey(db, user)
             THEN /\ db' = createUserMongo(db, user)
                  /\ nextUid' = nextUid + 1
                  /\ Finish(p, [c EXCEPT !.id = user.id, !.user = user], OK)
             ELSE /\ UNCHANGED <<db, nextUid>>
                  /\ Finish(p, [c EXCEPT !.flt = @ \/ ~ok], InfraError)
  /\ UNCHANGED <<kv, now, ncalls, nextTok, active, minted, chain, revoked>>

\* the clock advances by one unit (15 minutes) and Redis drops the entries whose
\* time-to-live has run out; a handler call lasts far less than one unit (the HTTP
\* server's read and write timeouts), so the clock moves between calls
Tick ==
  /\ now < MaxTime
  /\ \A p \in Procs : call[p].op = "idle"
  /\ now' = now + 1
  /\ kv' = Expire(kv, now + 1)
  /\ UNCHANGED <<db, budget, ncalls, nextTok, nextUid, active, call, ret, minted, chain,
                 rotated, revoked, issued>>

\* the clock advances to the instant at which the time-to-live of some stored entry
\* runs out, and Redis drops every entry whose time-to-live has run out by then
Elapse ==
  /\ \A p \in Procs : call[p].op = "idle"
  /\ \E k \in DOMAIN kv :
       /\ kv[k].exp > now
       /\ now' = kv[k].exp
       /\ kv' = Expire(kv, kv[k].exp)
  /\ UNCHANGED <<db, budget, ncalls, nextTok, nextUid, active, call, ret, minted, chain,
                 rotated, revoked, issued>>

\* the clock advances while a call is suspended before a Set of storeToken (store calls
\* are where a handler suspends; nothing bounds the time between GenerateTokens and Set)
Stall ==
  /\ now < MaxTime
  /\ \E p \in Procs : call[p].pc \in {"accP", "refP"}
  /\ now' = now + 1
  /\ kv' = Expire(kv, now + 1)
  /\ UNCHANGED <<db, budget, ncalls, nextTok, nextUid, active, call, ret, minted, chain,
                 rotated, revoked, issued>>

\* the token lifecycle: the auth use case over the token repository
Next ==
  \/ \E p \in Procs : Login(p)
  \/ \E p \in Procs : RefreshTokenCall(p)
  \/ \E p \in Procs : storeToken(p)
  \/ \E p \in Procs : storeTokenIndex(p)
  \/ \E p \in Procs : Logout(p)
  \/ \E p \in Procs : DeleteTokenGet(p)
  \/ \E p \in Procs : DeleteToken(p)
  \/ \E p \in Procs : DeleteTokenFromIndex(p)
  \/ \E p \in Procs : LogoutAll(p)
  \/ \E p \in Procs : ValidateToken(p)
  \/ Tick

\* the user use case over the cache-aside user repository
NextUser ==
  \/ \E p \in Procs : GetByID(p)
  \/ \E p \in Procs : UpdateStatus(p)
  \/ \E p \in Procs : GetByIDFromStore(p)
  \/ \E p \in Procs : GetByIDCacheSet(p)
  \/ \E p \in Procs : UpdateStatusStore(p)
  \/ \E p \in Procs : UpdateStatusInvalidate(p)
  \/ \E p \in Procs : Register(p)
  \/ \E p \in Procs : RegisterGetByUsername(p)
  \/ \E p \in Procs : RegisterCreate(p)
  \/ Tick

Spec == Init /\ [][Next]_vars

SpecUser == Init /\ [][NextUser]_vars

\* both use cases together
NextAll == Next \/ NextUser

SpecAll == Init /\ [][NextAll]_vars

\* the same program with two request handlers serving calls at the same time,
\* every store call answering
InitConc ==
  /\ db = [i \in {1} |-> AdminUser]
  /\ kv = EmptyStore
  /\ now = 0
  /\ budget = 0
  /\ ncalls = 0
  /\ nextTok = 1
  /\ nextUid = 2
  /\ active = Procs
  /\ call = [p \in Procs |-> Idle]
  /\ ret = [p \in Procs |-> Idle]
  /\ minted = {}
  /\ rotated = {}
  /\ revoked = {}
  /\ issued = {}
  /\ chain = {}

\* token rotation under concurrent requests
NextConc ==
  \/ \E p \in Procs : Login(p)
  \/ \E p \in Procs : RefreshTokenCall(p)
  \/ \E p \in Procs : storeToken(p)
  \/ \E p \in Procs : storeTokenIndex(p)
  \/ \E p \in Procs : DeleteTokenGet(p)
  \/ \E p \in Procs : DeleteToken(p)
  \/ \E p \in Procs : DeleteTokenFromIndex(p)
  \/ \E p \in Procs : ValidateToken(p)

SpecConc == InitConc /\ [][NextConc]_vars

\* issuance, rotation and validation while the stored entries run out one after another
NextExpiry ==
  \/ \E p \in Procs : Login(p)
  \/ \E p \in Procs : RefreshTokenCall(p)
  \/ \E p \in Procs : storeToken(p)
  \/ \E p \in Procs : storeTokenIndex(p)
  \/ \E p \in Procs : DeleteTokenGet(p)
  \/ \E p \in Procs : DeleteToken(p)
  \/ \E p \in Procs : DeleteTokenFromIndex(p)
  \/ \E p \in Procs : ValidateToken(p)
  \/ Elapse

SpecExpiry == Init /\ [][NextExpiry]_vars

\* issuance and validation with calls that can be suspended before a store call
NextStall ==
  \/ \E p \in Procs : Login(p)
  \/ \E p \in Procs : storeToken(p)
  \/ \E p \in Procs : storeTokenIndex(p)
  \/ \E p \in Procs : ValidateToken(p)
  \/ Tick
  \/ Stall

SpecStall == Init /\ [][NextStall]_vars

\* registration under concurrent requests
NextUserConc ==
  \/ \E p \in Procs : Register(p)
  \/ \E p \in Procs : RegisterGetByUsername(p)
  \/ \E p \in Procs : RegisterCreate(p)

SpecUserConc == InitConc /\ [][NextUserConc]_vars

\* the lookups by email and by username next to the cached reads by id
NextLookup ==
  \/ NextUser
  \/ \E p \in Procs : Authenticate(p)

SpecLookup == Init /\ [][NextLookup]_vars

\* token issuance and rotation while the owning user is blocked or deleted
NextOwner ==
  \/ \E p \in Procs : Login(p)
  \/ \E p \in Procs : RefreshTokenCall(p)
  \/ \E p \in Procs : storeToken(p)
  \/ \E p \in Procs : storeTokenIndex(p)
  \/ \E p \in Procs : DeleteTokenGet(p)
  \/ \E p \in Procs : DeleteToken(p)
  \/ \E p \in Procs : DeleteTokenFromIndex(p)
  \/ \E p \in Procs : UpdateStatus(p)
  \/ \E p \in Procs : GetByIDFromStore(p)
  \/ \E p \in Procs : GetByIDCacheSet(p)
  \/ \E p \in Procs : UpdateStatusStore(p)
  \/ \E p \in Procs : UpdateStatusInvalidate(p)
  \/ \E p \in Procs : Delete(p)
  \/ \E p \in Procs : DeleteStore(p)
  \/ \E p \in Procs : DeleteInvalidate(p)

SpecOwner == Init /\ [][NextOwner]_vars

\* the token signer on its own: one set of token details per run
InitSigner ==
  /\ db = [i \in {1} |-> AdminUser]
  /\ kv = EmptyStore
  /\ now = 0
  /\ budget = 0
  /\ ncalls = 0
  /\ nextTok = 1
  /\ nextUid = 2
  /\ active = {"p1"}
  /\ \E tokenID \in 0..MaxTokenId, userID \in 0..MaxUserId, tokenType \in {AccessToken, RefreshToken} :
       call = [p \in Procs |->
                 IF p = "p1"
                 THEN [Idle EXCEPT !.op = "createToken", !.pc = "sign",
                                   !.acc = TokenDetails(tokenID, userID, tokenType, AccessDuration)]
                 ELSE Idle]
  /\ ret = [p \in Procs |-> Idle]
  /\ minted = {}
  /\ rotated = {}
  /\ revoked = {}
  /\ issued = {}
  /\ chain = {}

\* tokenService.createToken on the details
SignToken(p) ==
  /\ call[p].pc = "sign"
  /\ Goto(p, [call[p] EXCEPT !.token = createToken(call[p].acc)], "verify")
  /\ UNCHANGED <<db, kv, now, budget, ncalls, nextTok, nextUid, active, minted, chain, revoked>>

\* tokenService.ValidateToken on the token string createToken returned
VerifyToken(p) ==
  /\ call[p].pc = "verify"
  /\ LET c == call[p]
         claims == TokenServiceValidateToken(c.token)
     IN Finish(p, [c EXCEPT !.tokenID = claims.jti, !.id = claims.sub, !.tokenType = claims.type],
               IF claims = NoClaims THEN ErrInvalidToken ELSE OK)
  /\ UNCHANGED <<db, kv, now, budget, ncalls, nextTok, nextUid, active, minted, chain, revoked>>

NextSigner ==
  \/ \E p \in Procs : SignToken(p)
  \/ \E p \in Procs : VerifyToken(p)

SpecSigner == InitSigner /\ [][NextSigner]_vars

\* the user use case with every mutation of the user repository
NextRepo ==
  \/ \E p \in Procs : GetByID(p)
  \/ \E p \in Procs : GetByIDFromStore(p)
  \/ \E p \in Procs : GetByIDCacheSet(p)
  \/ \E p \in Procs : UpdateStatus(p)
  \/ \E p \in Procs : UpdateStatusStore(p)
  \/ \E p \in Procs : UpdateStatusInvalidate(p)
  \/ \E p \in Procs : Update(p)
  \/ \E p \in Procs : UpdateStore(p)
  \/ \E p \in Procs : UpdateCacheSet(p)
  \/ \E p \in Procs : ChangePassword(p)
  \/ \E p \in Procs : ChangePasswordStore(p)
  \/ \E p \in Procs : ChangePasswordInvalidate(p)
  \/ \E p \in Procs : Delete(p)
  \/ \E p \in Procs : DeleteStore(p)
  \/ \E p \in Procs : DeleteInvalidate(p)
  \/ Tick

SpecRepo == Init /\ [][NextRepo]_vars

\* the user repository with two request handlers serving calls at the same time, every
\* store call answering
NextRepoConc ==
  \/ \E p \in Procs : GetByID(p)
  \/ \E p \in Procs : GetByIDFromStore(p)
  \/ \E p \in Procs : GetByIDCacheSet(p)
  \/ \E p \in Procs : UpdateStatus(p)
  \/ \E p \in Procs : UpdateStatusStore(p)
  \/ \E p \in Procs : UpdateStatusInvalidate(p)
  \/ \E p \in Procs : Update(p)
  \/ \E p \in Procs : UpdateStore(p)
  \/ \E p \in Procs : UpdateCacheSet(p)
  \/ \E p \in Procs : ChangePassword(p)
  \/ \E p \in Procs : ChangePasswordStore(p)
  \/ \E p \in Procs : ChangePasswordInvalidate(p)
  \/ \E p \in Procs : Delete(p)
  \/ \E p \in Procs : DeleteStore(p)
  \/ \E p \in Procs : DeleteInvalidate(p)

SpecRepoConc == InitConc /\ [][NextRepoConc]_vars

\* the token lifecycle with logout requested over HTTP
NextHTTP ==
  \/ \E p \in Procs : Login(p)
  \/ \E p \in Procs : RefreshTokenCall(p)
  \/ \E p \in Procs : storeToken(p)
  \/ \E p \in Procs : storeTokenIndex(p)
  \/ \E p \in Procs : LogoutHandler(p)
  \/ \E p \in Procs : DeleteTokenGet(p)
  \/ \E p \in Procs : DeleteToken(p)
  \/ \E p \in Procs : DeleteTokenFromIndex(p)
  \/ \E p \in Procs : ValidateToken(p)
  \/ Tick

SpecHTTP == Init /\ [][NextHTTP]_vars

\* tokens presented after their owner has been deleted
NextDeleted ==
  \/ \E p \in Procs : Login(p)
  \/ \E p \in Procs : RefreshTokenCall(p)
  \/ \E p \in Procs : storeToken(p)
  \/ \E p \in Procs : storeTokenIndex(p)
  \/ \E p \in Procs : DeleteTokenGet(p)
  \/ \E p \in Procs : DeleteToken(p)
  \/ \E p \in Procs : DeleteTokenFromIndex(p)
  \/ \E p \in Procs : ValidateToken(p)
  \/ \E p \in Procs : Delete(p)
  \/ \E p \in Procs : GetByIDFromStore(p)
  \/ \E p \in Procs : GetByIDCacheSet(p)
  \/ \E p \in Procs : DeleteStore(p)
  \/ \E p \in Procs : DeleteInvalidate(p)

SpecDeleted == Init /\ [][NextDeleted]_vars

TypeOK == now \in 0..MaxTime /\ budget \in 0..MaxFaults /\ ncalls \in 0..MaxCalls

(* ---------------- properties ---------------- *)
\* handler p returns from a call in this step
Returned(p) == ret'[p].seq # ret[p].seq

\* the token string is one createToken produced
Genuine(token) == \E d \in minted : token = createToken(d)

\* the details GenerateTokens produced for a token id
MintedFor(tokenID) == {d \in minted : d.token_id = tokenID}

\* the token entries of the store that belong to a user, and the user's index entries
PrimaryOf(userID) ==
  {k \in DOMAIN kv : k[1] \in {accessTokenPrefix, refreshTokenPrefix} /\ kv[k].val.user_id = userID}

IndexOf(userID) == {k \in DOMAIN kv : k[1] = userTokensPrefix /\ k[2] = userID}

\* C1: after LogoutAll(userId) has returned nil, ValidateToken on an access token
\* that was issued to that user before the call fails with ErrInvalidToken.
C1_LogoutAllThenValidateFails ==
  \A p \in Procs :
    (ret[p].op = "ValidateToken" /\ ret[p].after /\ ~ret[p].flt)
      => ret[p].res = ErrInvalidToken

\* C2: RefreshToken(R) called again after a RefreshToken(R) call has returned the new
\* pair: the first call is not rejected while R's record is live, it leaves R's record
\* removed, and the second call fails with ErrInvalidRefreshToken and issues no tokens.
C2_SecondRefreshFails ==
  \A p \in Procs :
    ret[p].op = "RefreshToken" /\ ~ret[p].flt =>
      /\ ret[p].after =>
           /\ ret[p].res = ErrInvalidRefreshToken
           /\ ret[p].acc = NoDetails /\ ret[p].ref = NoDetails /\ ret[p].wrote = {}
      /\ (ret[p].res = ErrInvalidRefreshToken /\ Genuine(ret[p].token)
            /\ ret[p].token.payload.type = RefreshToken)
           => ~CacheHas(kv, TokenKey(refreshTokenPrefix, ret[p].tokenID))
      /\ ret[p].res = OK =>
           /\ ~CacheHas(kv, TokenKey(refreshTokenPrefix, ret[p].tokenID))
           /\ ret[p].wrote = {TokenKey(accessTokenPrefix, ret[p].acc.token_id),
                              TokenKey(refreshTokenPrefix, ret[p].ref.token_id)}

C2_Witness ==
  \E p \in Procs :
    /\ ret[p].op = "RefreshToken" /\ ret[p].after /\ ~ret[p].flt
    /\ ret[p].res = ErrInvalidRefreshToken
    /\ Genuine(ret[p].token)

\* C3: two RefreshToken calls that present the same refresh token never both return a
\* new pair, however their store calls interleave.
C3_OneRefreshWins ==
  \A p, q \in Procs :
    (p # q /\ ret[p].op = "RefreshToken" /\ ret[q].op = "RefreshToken"
       /\ ret[p].res = OK /\ ret[q].res = OK)
      => ret[p].tokenID # ret[q].tokenID

\* C4: Login fails with ErrInvalidCredentials and stores no token when no user has
\* the email, when the user's status is not active, or when the password does not match.
C4_LoginRejectsInactive ==
  \A p \in Procs :
    (ret[p].op = "Login" /\ ~ret[p].flt
       /\ (\/ ret[p].user = NoUser
           \/ ret[p].user.status # UserStatusActive
           \/ ~CheckPasswordHash(ret[p].password, ret[p].user.password)))
      => (ret[p].res = ErrInvalidCredentials /\ ret[p].wrote = {})

\* C5: ValidateToken on the access token a successful Login returned, before the
\* token's expiration and with no Logout of it, returns the identity of the user
\* Login returned.
C5_LoginThenValidate ==
  [][\A p \in Procs : \A i \in issued :
       (/\ Returned(p) /\ ret'[p].op = "ValidateToken" /\ ~ret'[p].flt
        /\ i.op = "Login"
        /\ \E d \in MintedFor(i.token_id) :
             /\ d.token_type = AccessToken
             /\ ret'[p].token = createToken(d)
             /\ now < d.expiration
        /\ i.token_id \notin revoked)
       => (ret'[p].res = OK /\ ret'[p].id = i.user_id)]_vars

C5_Witness ==
  \E p \in Procs : \E i \in issued :
    /\ ret[p].op = "ValidateToken" /\ ret[p].res = OK
    /\ i.op = "Login" /\ i.token_id = ret[p].tokenID /\ i.user_id = ret[p].id
    /\ ret[p].id \in DOMAIN db /\ db[ret[p].id].status = UserStatusActive

\* C6: ValidateToken returns an identity only for a token that verifies, whose kind
\* is access and whose record exists under the access prefix, and then it returns the
\* owner the token was issued to; every other token is refused with ErrInvalidToken.
C6_ValidateOnlyLiveAccess ==
  [][\A p \in Procs :
       (Returned(p) /\ ret'[p].op = "ValidateToken") =>
         LET t == ret'[p].token
             live == /\ Genuine(t)
                     /\ t.payload.type = AccessToken
                     /\ CacheHas(kv, TokenKey(accessTokenPrefix, t.payload.jti))
         IN /\ ret'[p].res = OK =>
                 /\ live
                 /\ \E d \in MintedFor(t.payload.jti) :
                      d.token_type = AccessToken /\ d.user_id = ret'[p].id
            /\ ~live => (ret'[p].res # OK /\ ret'[p].id = 0)
            /\ (~live /\ ~ret'[p].flt) => ret'[p].res = ErrInvalidToken
            /\ (live /\ ~ret'[p].flt) => ret'[p].res = OK]_vars

C6_Witness ==
  /\ \E p \in Procs :
       /\ ret[p].op = "ValidateToken" /\ ret[p].res = ErrInvalidToken
       /\ Genuine(ret[p].token) /\ ret[p].token.payload.type = AccessToken
       /\ ret[p].tokenID \in revoked
  /\ \E d \in minted : d.token_type = AccessToken

\* C7: within one RefreshToken call the record of the consumed refresh token is removed
\* only after the new access record and the new refresh record have been written, and
\* in every state of the call the consumed or the new refresh token is live in the
\* store (or the consumed one has run out by time).
C7_StoreBeforeRevoke ==
  \A p \in Procs :
    LET c == IF call[p].op = "RefreshToken" THEN call[p] ELSE ret[p]
        old == TokenKey(refreshTokenPrefix, c.tokenID)
    IN (c.op = "RefreshToken" /\ c.hit) =>
         /\ old \in c.removed =>
              {TokenKey(accessTokenPrefix, c.acc.token_id),
               TokenKey(refreshTokenPrefix, c.ref.token_id)} \subseteq c.wrote
         /\ call[p].op = "RefreshToken" =>
              \/ CacheHas(kv, old)
              \/ CacheHas(kv, TokenKey(refreshTokenPrefix, c.ref.token_id))
              \/ \E d \in MintedFor(c.tokenID) : now >= d.expiration

C7_Witness ==
  \E p \in Procs :
    /\ call[p].op = "RefreshToken" /\ call[p].pc = "delI"
    /\ TokenKey(refreshTokenPrefix, call[p].tokenID) \in call[p].removed
    /\ ~CacheHas(kv, TokenKey(refreshTokenPrefix, call[p].tokenID))
    /\ CacheHas(kv, TokenKey(refreshTokenPrefix, call[p].ref.token_id))

\* C8: when DeleteUserTokens(userId) has returned nil, the store holds no access or
\* refresh entry owned by userId and no user_tokens index entry of userId.
C8_DeleteUserTokensEmpties ==
  \A p \in Procs :
    (ret[p].op = "LogoutAll" /\ ret[p].res = OK /\ call[p].op = "idle")
      => (PrimaryOf(ret[p].id) = {} /\ IndexOf(ret[p].id) = {})

\* C9: after UpdateStatus(id, "blocked") succeeded on a user the cache held as
\* active, the next GetByID(id) returns the user with status blocked.
C9_BlockedNotStale ==
  \A p \in Procs :
    (ret[p].op = "GetByID" /\ ret[p].after /\ ~ret[p].flt)
      => (ret[p].res = OK /\ ret[p].user.id = ret[p].id
          /\ ret[p].user.status = UserStatusBlocked)

C9_Witness ==
  \E p \in Procs :
    /\ ret[p].op = "GetByID" /\ ret[p].after /\ ~ret[p].flt
    /\ ret[p].res = OK /\ ret[p].user.status = UserStatusBlocked

\* C10: Register for an email an existing user has fails with ErrEmailAlreadyExists;
\* for a new email with a taken username it fails with ErrUsernameAlreadyExists; in
\* both cases no user record is created.
C10_RegisterDuplicate ==
  \A p \in Procs :
    (ret[p].op = "Register" /\ ~ret[p].flt) =>
      /\ ret[p].taken = "email" => ret[p].res = ErrEmailAlreadyExists
      /\ ret[p].taken = "username" => ret[p].res = ErrUsernameAlreadyExists
      /\ ret[p].taken # "" =>
           /\ ret[p].id = 0
           /\ Cardinality({i \in DOMAIN db : db[i].email = ret[p].email}) <= 1
           /\ Cardinality({i \in DOMAIN db : db[i].username = ret[p].username}) <= 1
           /\ Cardinality(DOMAIN db) = nextUid - 1

C10_Witness ==
  \E p \in Procs :
    /\ ret[p].op = "Register" /\ ~ret[p].flt /\ ret[p].taken = "username"
    /\ ret[p].res = ErrUsernameAlreadyExists
    /\ \E i \in DOMAIN db : db[i].username = ret[p].username /\ db[i].email # ret[p].email

\* C11: in every state of the document store no two user records share an email and
\* no two share a username, also when two Register calls for the same email or
\* username both pass their lookups before either inserts.
C11_UniqueEmailUsername ==
  \A i, j \in DOMAIN db :
    i # j => (db[i].email # db[j].email /\ db[i].username # db[j].username)

\* a Register call whose lookups found nothing was refused at the insert, every store
\* call answering, because another call had inserted the same email in between
C11_Witness ==
  \E p \in Procs :
    /\ ret[p].op = "Register" /\ ret[p].taken = "" /\ ~ret[p].flt
    /\ ret[p].res = InfraError
    /\ \E i \in DOMAIN db : db[i].email = ret[p].email /\ i # 1

C13_ExpiredPutFails ==
  [][/\ \A k \in DOMAIN kv' :
          k[1] \in {accessTokenPrefix, refreshTokenPrefix, userTokensPrefix}
            => kv'[k].exp # NoExpiry
     /\ \A p \in Procs :
          LET c == call[p]
              details == IF c.pc = "accP" THEN c.acc ELSE c.ref
          IN (c.pc \in {"accP", "refP"} /\ call'[p] # c /\ details.expiration <= now /\ budget' = budget)
               => (kv' = kv /\ call'[p].op = "idle" /\ ret'[p].res = ErrExpiredToken)]_vars

\* the refresh-token records in the store that descend from one Login
LiveRefresh(root) ==
  {k \in DOMAIN kv : k[1] = refreshTokenPrefix /\ ChainOf(k[4]) = root}

\* C14: whenever no call is in flight, each issuance chain started by a Login has at
\* most one live refresh-token record in the store, also after RefreshToken calls in
\* which a store call failed.
C14_OneLiveRefreshPerChain ==
  (\A p \in Procs : call[p].op = "idle")
    => \A x \in chain : Cardinality(LiveRefresh(x[2])) <= 1

\* C15: a RefreshToken call whose token does not verify, whose token is not of kind
\* refresh, or whose token id has no record under the refresh prefix returns
\* ErrInvalidRefreshToken, generates no pair and leaves the store as it was.
C15_RefreshRejects ==
  [][\A p \in Procs :
       LET c == IF call'[p].op = "idle" THEN ret'[p] ELSE call'[p]
       IN (/\ ncalls' = ncalls + 1 /\ c.op = "RefreshToken" /\ c.seq = ncalls'
           /\ \/ ~Genuine(c.token)
              \/ c.token.payload.type # RefreshToken
              \/ (~CacheHas(kv, TokenKey(refreshTokenPrefix, c.token.payload.jti)) /\ ~c.flt))
          => /\ call'[p].op = "idle" /\ c.res = ErrInvalidRefreshToken
             /\ c.acc = NoDetails /\ c.ref = NoDetails
             /\ kv' = kv /\ minted' = minted /\ nextTok' = nextTok]_vars

\* an access token whose record is live has been presented to RefreshToken and refused
C15_Witness ==
  \E p \in Procs :
    /\ ret[p].op = "RefreshToken" /\ ret[p].res = ErrInvalidRefreshToken
    /\ Genuine(ret[p].token) /\ ret[p].token.payload.type = AccessToken
    /\ CacheHas(kv, TokenKey(accessTokenPrefix, ret[p].token.payload.jti))

\* C16: no step of a Logout(tokenId) call changes, removes or adds a refresh-token
\* record or an access-token record of another id; the only entries it can remove are
\* access_token:tokenId and the index entry of that access token.
C16_LogoutOnlyAccess ==
  [][\A p \in Procs :
       LET c == IF call[p].op = "Logout" THEN call[p]
                ELSE IF call'[p].op = "Logout" THEN call'[p] ELSE ret'[p]
           others(store) == {k \in DOMAIN store :
                               \/ k[1] = refreshTokenPrefix
                               \/ k[1] = accessTokenPrefix /\ k[4] # c.tokenID}
       IN (/\ c.op = "Logout"
           /\ call[p].op = "Logout" \/ (ncalls' = ncalls + 1 /\ c.seq = ncalls'))
          => /\ others(kv') = others(kv)
             /\ \A k \in others(kv) : kv'[k] = kv[k]
             /\ DOMAIN kv' \subseteq DOMAIN kv
             /\ DOMAIN kv \ DOMAIN kv' \subseteq
                  {TokenKey(accessTokenPrefix, c.tokenID),
                   UserTokenKey(c.owner, AccessToken, c.tokenID)}]_vars

\* after Logout removed an access token's record, RefreshToken on the refresh token
\* generated together with it has returned a new pair
C16_Witness ==
  \E p \in Procs : \E d \in minted :
    /\ ret[p].op = "RefreshToken" /\ ret[p].res = OK
    /\ d.token_type = AccessToken /\ d.token_id + 1 = ret[p].tokenID
    /\ d.token_id \in revoked /\ now < d.expiration
    /\ ~CacheHas(kv, TokenKey(accessTokenPrefix, d.token_id))

\* C17: whenever no call is in flight, the index entry (userId, kind, tokenId) of a
\* generated token is in the store exactly when the primary entry kind:tokenId is,
\* also after calls in which single Set or Delete calls failed.
C17_IndexMatchesPrimary ==
  (\A p \in Procs : call[p].op = "idle")
    => \A d \in minted :
         CacheHas(kv, UserTokenKey(d.user_id, d.token_type, d.token_id))
           <=> CacheHas(kv, TokenKey(PrefixOf(d.token_type), d.token_id))

\* C18: DeleteToken on a token id whose record is absent returns nil after its lookup
\* and leaves the store as it was; a DeleteToken that returned nil with every store
\* call answering leaves the record absent, so a second one finds it absent.
C18_DeleteTokenIdempotent ==
  [][\A p \in Procs :
       LET c == IF call'[p].op = "idle" THEN ret'[p] ELSE call'[p]
           key == TokenKey(accessTokenPrefix, c.tokenID)
       IN /\ (/\ ncalls' = ncalls + 1 /\ c.op = "Logout" /\ c.seq = ncalls'
              /\ ~CacheHas(kv, key) /\ ~c.flt)
             => (call'[p].op = "idle" /\ c.res = OK /\ kv' = kv)
          /\ (Returned(p) /\ ret'[p].op = "Logout" /\ ret'[p].res = OK /\ ~ret'[p].flt)
             => ~CacheHas(kv', key)]_vars

\* a second Logout of an access token that had been stored and has not run out found
\* no record and returned nil
C18_Witness ==
  \E p \in Procs : \E d \in IssuedDetails :
    /\ ret[p].op = "Logout" /\ ret[p].res = OK /\ ~ret[p].flt
    /\ ret[p].owner = 0 /\ ret[p].removed = {}
    /\ d.token_id = ret[p].tokenID /\ d.token_type = AccessToken /\ now < d.expiration

\* C19: a RefreshToken call that has stored its new pair returns the pair with a nil
\* error whatever happens to the removal of the consumed token, and the new access
\* record and the new refresh record are in the store when it returns.
C19_RevokeFailureNotFatal ==
  [][\A p \in Procs :
       LET c == ret'[p]
           newKeys == {TokenKey(accessTokenPrefix, c.acc.token_id),
                       TokenKey(refreshTokenPrefix, c.ref.token_id)}
       IN (/\ Returned(p) /\ c.op = "RefreshToken" /\ newKeys \subseteq c.wrote)
          => /\ c.res = OK
             /\ newKeys \subseteq DOMAIN kv'
             /\ kv'[TokenKey(accessTokenPrefix, c.acc.token_id)].val = c.acc
             /\ kv'[TokenKey(refreshTokenPrefix, c.ref.token_id)].val = c.ref]_vars

\* a RefreshToken call returned its pair although a store call of DeleteToken failed
\* and the consumed record is still in the store
C19_Witness ==
  \E p \in Procs :
    /\ ret[p].op = "RefreshToken" /\ ret[p].res = OK /\ ret[p].flt
    /\ ret[p].removed = {}
    /\ CacheHas(kv, TokenKey(refreshTokenPrefix, ret[p].tokenID))
    /\ CacheHas(kv, UserTokenKey(ret[p].acc.user_id, AccessToken, ret[p].acc.token_id))
    /\ CacheHas(kv, UserTokenKey(ret[p].ref.user_id, RefreshToken, ret[p].ref.token_id))
    /\ CacheHas(kv, TokenKey(refreshTokenPrefix, ret[p].ref.token_id))

\* C20: a storeToken whose primary Set succeeded returns nil whether or not its index
\* Set fails: the calling handler goes on to its next store call or returns its
\* tokens, and the primary entry stays in the store.
C20_IndexFailureNotFatal ==
  [][\A p \in Procs :
       LET c == call[p]
           details == IF c.pc = "accI" THEN c.acc ELSE c.ref
           key == TokenKey(PrefixOf(details.token_type), details.token_id)
       IN (c.pc \in {"accI", "refI"} /\ call'[p] # c)
          => /\ IF Succ(c.op, c.pc) = "end"
                THEN call'[p].op = "idle" /\ ret'[p].res = OK
                ELSE call'[p].op = c.op /\ call'[p].pc = Succ(c.op, c.pc)
             /\ CacheHas(kv', key) /\ kv'[key] = kv[key] /\ kv'[key].val = details]_vars

\* a Login returned its tokens although the index Set for its access token failed: the
\* access record is stored and has no index entry
C20_Witness ==
  \E p \in Procs :
    /\ ret[p].op = "Login" /\ ret[p].res = OK /\ ret[p].flt
    /\ CacheHas(kv, TokenKey(accessTokenPrefix, ret[p].acc.token_id))
    /\ ~CacheHas(kv, UserTokenKey(ret[p].acc.user_id, AccessToken, ret[p].acc.token_id))
    /\ now < ret[p].acc.expiration

\* C21: when Update, ChangePassword, UpdateStatus or Delete has returned success, every
\* store call answering, the cache holds no entry for that user: the repository call
\* evicted it and wrote none from the user object it was handed.
C21_MutationEvicts ==
  \A p \in Procs :
    (/\ call[p].op = "idle" /\ ret[p].res = OK /\ ~ret[p].flt
     /\ ret[p].op \in {"Update", "ChangePassword", "UpdateStatus", "Delete"})
      => ~CacheHas(kv, UserCacheKey(ret[p].id))

\* C22: in Update, ChangePassword, UpdateStatus and Delete of the user repository the
\* document store is written before the cache is touched, and a failed document-store
\* write returns the error with the cache and the document store as they were.
C22_StoreFailureNoCacheChange ==
  [][\A p \in Procs :
       LET c == call[p]
       IN /\ (c.pc \in {"uD", "wD", "cD", "dD"} /\ call'[p] # c /\ budget' < budget)
             => /\ call'[p].op = "idle" /\ ret'[p].res = InfraError
                /\ kv' = kv /\ db' = db
          /\ (c.pc \in {"uC", "wC", "cC", "dC"} /\ call'[p] # c)
             => /\ db' = db
                /\ c.pc = "dC" => c.id \notin DOMAIN db
                /\ (c.pc = "uC" /\ c.id \in DOMAIN db) => db[c.id].status = c.status
                /\ (c.pc = "wC" /\ c.id \in DOMAIN db) => db[c.id].first_name = c.firstName
                /\ (c.pc = "cC" /\ c.id \in DOMAIN db)
                     => db[c.id].password = HashPassword(c.newPassword)]_vars

\* an UpdateStatus whose document-store write failed returned the error while the cache
\* holds the user's entry and the stored status is still the old one
C22_Witness ==
  \E p \in Procs :
    /\ ret[p].op = "UpdateStatus" /\ ret[p].res = InfraError /\ ret[p].flt
    /\ ret[p].user # NoUser /\ call[p].op = "idle"
    /\ CacheHas(kv, UserCacheKey(ret[p].id))
    /\ ret[p].id \in DOMAIN db /\ db[ret[p].id].status # ret[p].status

\* C23: in Update, ChangePassword, UpdateStatus and Delete of the user repository, once
\* the document-store write has succeeded the call returns success whether or not the
\* cache Set or Delete that follows fails, and the document store keeps the written value.
C23_CacheFailureNotFatal ==
  [][\A p \in Procs :
       LET c == call[p]
           id == c.id
       IN (c.pc \in {"uC", "wC", "cC", "dC"} /\ call'[p] # c)
          => /\ call'[p].op = "idle" /\ ret'[p].res = OK
             /\ db' = db
             /\ c.pc = "dC" => id \notin DOMAIN db'
             /\ (c.pc = "uC" /\ id \in DOMAIN db') => db'[id].status = c.status
             /\ (c.pc = "wC" /\ id \in DOMAIN db') => db'[id].first_name = c.firstName
             /\ (c.pc = "cC" /\ id \in DOMAIN db')
                  => db'[id].password = HashPassword(c.newPassword)
             /\ budget' < budget => kv' = kv]_vars

\* a ChangePassword returned success although its cache Delete failed: the store holds
\* the new hash and the cache still holds the user's entry
C23_Witness ==
  \E p \in Procs :
    /\ ret[p].op = "ChangePassword" /\ ret[p].res = OK /\ ret[p].flt
    /\ call[p].op = "idle" /\ ret[p].removed = {}
    /\ ret[p].newPassword # ret[p].password
    /\ ret[p].id \in DOMAIN db /\ db[ret[p].id].password = HashPassword(ret[p].newPassword)
    /\ CacheHas(kv, UserCacheKey(ret[p].id))

\* C24: a userRepository.GetByID (called by GetByID and, first, by every mutating use
\* case) that finds an entry for the id in the cache returns the record unmarshalled
\* from that entry in the same step, without a read of the document store, and leaves
\* the cache and the document store as they were.
C24_CacheHitNoStoreRead ==
  [][\A p \in Procs :
       LET c == IF call'[p].op = "idle" THEN ret'[p] ELSE call'[p]
           key == UserCacheKey(c.id)
       IN (/\ ncalls' = ncalls + 1 /\ c.seq = ncalls'
           /\ c.op \in {"GetByID", "UpdateStatus", "Update", "ChangePassword", "Delete"}
           /\ CacheHas(kv, key) /\ budget' = budget)
          => /\ c.pc # "gD"
             /\ c.op = "GetByID" => (call'[p].op = "idle" /\ c.res = OK)
             /\ MarshalUser(c.user) = kv[key].val
             /\ kv' = kv /\ db' = db]_vars

\* a GetByID served from the cache returned a status the document store no longer holds
C24_Witness ==
  \E p \in Procs :
    /\ ret[p].op = "GetByID" /\ ret[p].res = OK /\ ret[p].hit /\ call[p].op = "idle"
    /\ ret[p].id \in DOMAIN db /\ db[ret[p].id].status # ret[p].user.status
    /\ CacheHas(kv, UserCacheKey(ret[p].id))

\* C25: a userRepository.GetByID whose cache lookup misses or fails reads the document
\* store and returns its result: a store error as the error; no document as absent, with
\* the cache untouched; a document as the user, after a cache Set that (when it answers)
\* leaves the JSON form of that document under the user's key with the 30-minute
\* time-to-live.
C25_MissReadsStoreAndCaches ==
  [][\A p \in Procs :
       LET c == call[p]
           n == IF call'[p].op = "idle" THEN ret'[p] ELSE call'[p]
           key == UserCacheKey(c.id)
       IN /\ (/\ ncalls' = ncalls + 1 /\ n.seq = ncalls'
               /\ n.op \in {"GetByID", "UpdateStatus", "Update", "ChangePassword", "Delete"}
               /\ (~CacheHas(kv, UserCacheKey(n.id)) \/ budget' < budget))
             => (call'[p].pc = "gD" /\ kv' = kv /\ db' = db)
          /\ (c.pc = "gD" /\ call'[p] # c)
             => /\ kv' = kv /\ db' = db
                /\ budget' < budget => (call'[p].op = "idle" /\ n.res = InfraError)
                /\ (budget' = budget /\ c.id \notin DOMAIN db)
                     => (call'[p].op = "idle" /\ n.res = ErrUserNotFound /\ n.user = NoUser)
                /\ (budget' = budget /\ c.id \in DOMAIN db)
                     => (call'[p].pc = "gS" /\ n.user = db[c.id])
          /\ (c.pc = "gS" /\ call'[p] # c)
             => /\ db' = db /\ c.id \in DOMAIN db /\ n.user = db[c.id]
                /\ c.op = "GetByID" => (call'[p].op = "idle" /\ n.res = OK)
                /\ budget' < budget => kv' = kv
                /\ budget' = budget
                     => /\ CacheHas(kv', key)
                        /\ kv'[key] = [val |-> MarshalUser(db[c.id]), exp |-> now + UserCacheTTL]
                        /\ \A k \in DOMAIN kv \cup DOMAIN kv' :
                             k # key => (k \in DOMAIN kv /\ k \in DOMAIN kv' /\ kv'[k] = kv[k])]_vars

\* a GetByID whose cache read failed returned the stored user and left it cached with
\* the 30-minute time-to-live
C25_Witness ==
  \E p \in Procs :
    /\ ret[p].op = "GetByID" /\ ret[p].res = OK /\ ret[p].flt /\ ~ret[p].hit
    /\ call[p].op = "idle" /\ UserCacheKey(ret[p].id) \in ret[p].wrote
    /\ ret[p].user = db[ret[p].id]
    /\ CacheHas(kv, UserCacheKey(ret[p].id))
    /\ kv[UserCacheKey(ret[p].id)] = [val |-> MarshalUser(ret[p].user), exp |-> now + UserCacheTTL]

\* C26: GetByEmail and GetByUsername make no cache call: the step that runs one leaves
\* the cache as it was, and its result is the document the store holds for the email or
\* username at that moment (none when the store holds none), whatever the cache holds.
C26_EmailLookupBypassesCache ==
  [][\A p \in Procs :
       LET c == call[p]
           n == IF call'[p].op = "idle" THEN ret'[p] ELSE call'[p]
           byEmail == {i \in DOMAIN db : db[i].email = n.email}
           byUsername == {i \in DOMAIN db : db[i].username = c.username}
       IN /\ (/\ ncalls' = ncalls + 1 /\ n.seq = ncalls' /\ budget' = budget
               /\ n.op \in {"Authenticate", "Register"})
             => /\ kv' = kv /\ db' = db
                /\ n.op = "Authenticate" =>
                     /\ call'[p].op = "idle"
                     /\ byEmail = {} => (n.user = NoUser /\ n.res = ErrInvalidCredentials)
                     /\ \A i \in byEmail :
                          /\ n.user = db[i]
                          /\ n.res = OK <=> (/\ db[i].status = UserStatusActive
                                             /\ CheckPasswordHash(n.password, db[i].password))
                /\ n.op = "Register" =>
                     (byEmail # {} <=> (call'[p].op = "idle" /\ n.res = ErrEmailAlreadyExists))
          /\ (c.pc = "rU" /\ call'[p] # c /\ budget' = budget)
             => /\ kv' = kv /\ db' = db
                /\ byUsername # {} <=> (call'[p].op = "idle" /\ n.res = ErrUsernameAlreadyExists)]_vars

\* Authenticate returned the stored user, hash included, while the cache held an entry
\* for the same user with another status
C26_Witness ==
  \E p \in Procs :
    /\ ret[p].op = "Authenticate" /\ call[p].op = "idle" /\ ret[p].user # NoUser
    /\ ret[p].user.id \in DOMAIN db /\ ret[p].user = db[ret[p].user.id]
    /\ ret[p].user.password = HashPassword("admin123")
    /\ CacheHas(kv, UserCacheKey(ret[p].user.id))
    /\ kv[UserCacheKey(ret[p].user.id)].val.status # ret[p].user.status

\* C27: a RefreshToken call that presents a genuine refresh token whose record is in the
\* store generates a new pair for the user id of the token's claims without a read or
\* write of the user repository, and returns the pair once both records are stored,
\* whatever the document store holds for that user: active, inactive, blocked or nothing.
C27_RefreshIgnoresUserState ==
  [][\A p \in Procs :
       LET n == IF call'[p].op = "idle" THEN ret'[p] ELSE call'[p]
           sub == n.token.payload.sub
       IN /\ (/\ ncalls' = ncalls + 1 /\ n.op = "RefreshToken" /\ n.seq = ncalls'
               /\ Genuine(n.token) /\ n.token.payload.type = RefreshToken
               /\ CacheHas(kv, TokenKey(refreshTokenPrefix, n.token.payload.jti))
               /\ budget' = budget)
             => /\ call'[p].op = "RefreshToken"
                /\ n.acc = GenerateAccess(sub, nextTok, now)
                /\ n.ref = GenerateRefresh(sub, nextTok + 1, now)
                /\ minted' = minted \cup {n.acc, n.ref}
                /\ db' = db
          /\ (call[p].op = "RefreshToken" /\ call'[p] # call[p]) => db' = db
          /\ (Returned(p) /\ n.op = "RefreshToken" /\ n.acc # NoDetails /\ ~n.flt)
             => /\ n.res = OK
                /\ CacheHas(kv', TokenKey(accessTokenPrefix, n.acc.token_id))
                /\ CacheHas(kv', TokenKey(refreshTokenPrefix, n.ref.token_id))]_vars

\* RefreshToken returned a new pair for a user whose document had been deleted
C27_Witness ==
  \E p \in Procs :
    /\ ret[p].op = "RefreshToken" /\ ret[p].res = OK /\ call[p].op = "idle"
    /\ ret[p].token.payload.sub \notin DOMAIN db
    /\ ret[p].acc.user_id = ret[p].token.payload.sub
    /\ CacheHas(kv, TokenKey(accessTokenPrefix, ret[p].acc.token_id))
    /\ CacheHas(kv, TokenKey(refreshTokenPrefix, ret[p].ref.token_id))

\* C28: a RefreshToken or ValidateToken call whose lookup in the token store failed has
\* returned the wrapped store error, which is neither ErrInvalidRefreshToken nor
\* ErrInvalidToken, with no generated or stored token and no user id.
C28_LookupFailureIsInfra ==
  \A p \in Procs :
    (ret[p].op \in {"RefreshToken", "ValidateToken"} /\ ret[p].flt /\ ~ret[p].hit)
      => /\ ret[p].res = InfraError
         /\ ret[p].res \notin {ErrInvalidRefreshToken, ErrInvalidToken, OK}
         /\ ret[p].acc = NoDetails /\ ret[p].ref = NoDetails
         /\ ret[p].wrote = {} /\ ret[p].id = 0

\* a RefreshToken whose lookup failed returned the store error although the record of
\* the genuine refresh token it presented is in the store
C28_Witness ==
  \E p \in Procs :
    /\ ret[p].op = "RefreshToken" /\ ret[p].flt /\ ~ret[p].hit /\ ret[p].res = InfraError
    /\ Genuine(ret[p].token) /\ ret[p].token.payload.type = RefreshToken
    /\ CacheHas(kv, TokenKey(refreshTokenPrefix, ret[p].tokenID))

C30_ChangePasswordCachedUser ==
  \A p \in Procs :
    (ret[p].op = "ChangePassword" /\ ret[p].after /\ budget = MaxFaults)
      => /\ ret[p].res = OK
         /\ call[p].op = "idle" =>
              /\ ret[p].id \in DOMAIN db
              /\ db[ret[p].id].password = HashPassword(ret[p].newPassword)

\* the cache holds no entry for the user, or the JSON of the document the store holds
CacheCoherent(id) ==
  CacheHas(kv, UserCacheKey(id))
    => id \in DOMAIN db /\ kv[UserCacheKey(id)].val = MarshalUser(db[id])

\* C31: when GetByID has run next to UpdateStatus, ChangePassword, Update or Delete of
\* the same user in another handler, every store call answering, then once all calls
\* have returned the cache entry of that user is absent or equal to the record the
\* document store holds: a GetByID that read the store before the write leaves no
\* older record cached after the write's eviction.
C31_CacheCoherentAfterRace ==
  \A p \in Procs, q \in Procs :
    (/\ \A r \in Procs : call[r].op = "idle"
     /\ ret[p].op = "GetByID" /\ ret[p].res = OK
     /\ ret[q].op \in {"UpdateStatus", "ChangePassword", "Update", "Delete"} /\ ret[q].res = OK
     /\ ret[q].id = ret[p].id)
      => CacheCoherent(ret[p].id)

\* C32: the document-store write of Update(id, firstName, lastName) changes only the
\* names of the stored user: status, role, email and username are after the write what
\* they were just before it, also when UpdateStatus has completed between Update's read
\* and its write and when the read was served from a stale cache entry.
C32_UpdateChangesOnlyNames ==
  [][\A p \in Procs :
       (call[p].op = "Update" /\ call[p].pc = "wD" /\ call'[p].pc = "wC")
         => /\ DOMAIN db' = DOMAIN db
            /\ \A i \in DOMAIN db :
                 /\ db'[i].status = db[i].status
                 /\ db'[i].role = db[i].role
                 /\ db'[i].email = db[i].email
                 /\ db'[i].username = db[i].username]_vars

\* C33: when Login or RefreshToken has returned an error, no token record that call
\* stored is in the token store: a failed Set of the refresh token leaves no access
\* token record behind that ValidateToken would accept.
C33_NoOrphanAfterError ==
  \A p \in Procs :
    (ret[p].op \in {"Login", "RefreshToken"} /\ ret[p].pc = "done" /\ ret[p].res # OK)
      => \A k \in ret[p].wrote : ~CacheHas(kv, k)

\* C34: whenever Logout, and with it DeleteToken(tokenID, access), has returned nil, the
\* primary entry of that token id is absent from the store: a store error met while
\* revoking is not reported as a successful revocation.
C34_LogoutSuccessMeansAbsent ==
  \A p \in Procs :
    (ret[p].op = "Logout" /\ ret[p].pc = "done" /\ ret[p].res = OK)
      => ~CacheHas(kv, TokenKey(PrefixOf(ret[p].tokenType), ret[p].tokenID))

\* C35: after the HTTP logout handler has answered 200 to a request authenticated with
\* access token T, the next ValidateToken(T) fails with ErrInvalidToken (no store call of
\* it or of the logout failing): the token id the middleware handed to Logout is the id
\* in T's claims.
C35_HandlerLogoutRevokes ==
  [][\A p \in Procs :
       LET n == ret'[p]
       IN (/\ ncalls' = ncalls + 1 /\ n.seq = ncalls' /\ budget' = budget
           /\ n.op = "ValidateToken"
           /\ ret[p].op = "LogoutHandler" /\ ret[p].res = OK /\ ~ret[p].flt
           /\ n.token = ret[p].token)
            => /\ n.res = ErrInvalidToken
               /\ ret[p].tokenID = ret[p].token.payload.jti]_vars

\* C36: Register inserts a user only after the lookups by email and by username have
\* both answered and found nothing: a Register call in which GetByEmail or GetByUsername
\* failed returns an error and creates no user record.
C36_RegisterLookupFailure ==
  \A p \in Procs :
    (ret[p].op = "Register" /\ ret[p].pc = "done" /\ ret[p].flt)
      => ret[p].res # OK /\ ret[p].user = NoUser

\* C37: after Delete(id) has returned nil, no token issued to that user before is
\* accepted (no store call of the presenting call failing): ValidateToken on one of its
\* access tokens fails with ErrInvalidToken, RefreshToken on one of its refresh tokens
\* fails with ErrInvalidRefreshToken.
C37_DeletedUserTokensRejected ==
  [][\A p \in Procs :
       LET n == IF call'[p].op = "idle" THEN ret'[p] ELSE call'[p]
       IN (/\ ncalls' = ncalls + 1 /\ n.seq = ncalls' /\ budget' = budget
           /\ n.op \in {"ValidateToken", "RefreshToken"}
           /\ \E q \in Procs : /\ ret[q].op = "Delete" /\ ret[q].res = OK
                                /\ ret[q].id = n.token.payload.sub
           /\ n.token.payload.sub \notin DOMAIN db)
            => /\ call'[p].op = "idle"
               /\ n.res = IF n.op = "ValidateToken" THEN ErrInvalidToken ELSE ErrInvalidRefreshToken]_vars

====
